---- MODULE Spec2Model ----
(***************************************************************************)
(* A model of sumread.py: read_sum, the reader of WOCE sum files, with its *)
(* helpers calculate_slices, simple_get, params_get, comments_get and      *)
(* latlon_get.  Text is modelled as TLA+ strings, character by character;  *)
(* a Python exception is the name of its class in the variable error.      *)
(***************************************************************************)
EXTENDS Integers, Sequences, FiniteSets, TLC

VARIABLES
    data,               \* the text of the bytes given to read_sum
    high_byte,          \* whether the bytes hold a byte above 0x7f
    empty_cols,         \* the empty_cols argument (a list of header labels)
    pc,                 \* the step the generator is at, or was at when it raised
    lines, preheader, header, body,
    normalized_headers, normalized_empty,
    column_slices, tokenized_body,
    line_no,            \* index in tokenized_body of the line being decoded
    fld,                \* index in normalized_headers of the next field
    row,                \* the deque of the line being decoded
    row_data,           \* the dict of the line being decoded
    rows,               \* the rows yielded so far
    error               \* "none", or the class of the exception raised

vars == <<data, high_byte, empty_cols, pc, lines, preheader, header, body,
          normalized_headers, normalized_empty, column_slices, tokenized_body,
          line_no, fld, row, row_data, rows, error>>

----------------------------------------------------------------------------
(* Python strings and lists *)

Ch(s, i) == SubSeq(s, i, i)

MinOf(S) == CHOOSE m \in S : \A n \in S : m <= n

MaxOf(S) == CHOOSE m \in S : \A n \in S : m >= n

\* The ASCII characters str.strip() removes: space, \t, \n, \r, \f and the
\* control characters 0x0b, 0x1c, 0x1d, 0x1e and 0x1f, written raw.
Whitespace == {" ", "\t", "\n", "\r", "\f", "", "", "", "", ""}

\* s without the characters of ws at its two ends.
StripOf(s, ws) ==
    LET keep == {i \in 1..Len(s) : Ch(s, i) \notin ws}
    IN  IF keep = {} THEN "" ELSE SubSeq(s, MinOf(keep), MaxOf(keep))

\* str.strip()
Strip(s) == StripOf(s, Whitespace)

\* str.startswith(p)
StartsWith(s, p) == Len(s) >= Len(p) /\ SubSeq(s, 1, Len(p)) = p

\* Python's None for an offset that str.index() did not find.
NoIndex == 0 - 1

\* str.index(sub) as the code uses it: the first offset (from 0), or
\* NoIndex where the code catches ValueError and stores None.
IndexOf(s, sub) ==
    LET at == {i \in 0..(Len(s) - Len(sub)) : SubSeq(s, i + 1, i + Len(sub)) = sub}
    IN  IF at = {} THEN NoIndex ELSE MinOf(at)

\* The ASCII line boundaries of str.splitlines(): \n, \r, \f and the
\* control characters 0x0b, 0x1c, 0x1d and 0x1e, written raw.
LineBreaks == {"\n", "\r", "\f", "", "", "", ""}

RECURSIVE SplitFrom(_, _, _)
SplitFrom(s, i, cur) ==
    IF i > Len(s) THEN (IF cur = "" THEN <<>> ELSE <<cur>>)
    ELSE IF Ch(s, i) \in LineBreaks
         THEN LET step == IF Ch(s, i) = "\r" /\ i < Len(s) /\ Ch(s, i + 1) = "\n"
                          THEN 2 ELSE 1
              IN  <<cur>> \o SplitFrom(s, i + step, "")
         ELSE SplitFrom(s, i + 1, cur \o Ch(s, i))

\* str.splitlines()
Splitlines(s) == SplitFrom(s, 1, "")

\* line[slice]: a Python slice clips to the string.
Slice(s, sl) ==
    IF sl.start >= Len(s) THEN ""
    ELSE SubSeq(s, sl.start + 1, IF sl.stop < Len(s) THEN sl.stop ELSE Len(s))

\* [l == " " for l in line]
IsSpace(s) == [i \in 1..Len(s) |-> Ch(s, i) = " "]

\* " ".join(d)
RECURSIVE JoinSpace(_)
JoinSpace(d) ==
    IF d = <<>> THEN ""
    ELSE IF Len(d) = 1 THEN d[1]
    ELSE d[1] \o " " \o JoinSpace(Tail(d))

\* Naturals of any size, as float() and float arithmetic need them: the
\* limbs of the number in base 2^LimbBits, least significant first, with
\* no zero limb at the top; <<>> is 0.
LimbBits == 15

Base == 2 ^ LimbBits

\* The recursions below halve their sequence, to stay shallow on long ones.

\* <<the Len(a) low limbs of a * k + c, the carry above them>>, for k and
\* c below Base
RECURSIVE MulAddLimbs(_, _, _)
MulAddLimbs(a, k, c) ==
    IF a = <<>> THEN <<<<>>, c>>
    ELSE IF Len(a) = 1
    THEN <<<<(a[1] * k + c) % Base>>, (a[1] * k + c) \div Base>>
    ELSE LET low  == MulAddLimbs(SubSeq(a, 1, Len(a) \div 2), k, c)
             high == MulAddLimbs(SubSeq(a, Len(a) \div 2 + 1, Len(a)), k, low[2])
         IN  <<low[1] \o high[1], high[2]>>

\* a * k + c, for k from 1 and c from 0, both below Base
MulAdd(a, k, c) ==
    LET r == MulAddLimbs(a, k, c)
    IN  IF r[2] = 0 THEN r[1] ELSE Append(r[1], r[2])

\* a without the zero limbs at its top
Trim(a) ==
    LET solid == {i \in 1..Len(a) : a[i] # 0}
    IN  IF solid = {} THEN <<>> ELSE SubSeq(a, 1, MaxOf(solid))

\* <<the Len(a) limbs of (r * Base^Len(a) + a) \div k, the remainder>>, for
\* r below k
RECURSIVE DivModLimbs(_, _, _)
DivModLimbs(a, k, r) ==
    IF a = <<>> THEN <<<<>>, r>>
    ELSE IF Len(a) = 1
    THEN <<<<(r * Base + a[1]) \div k>>, (r * Base + a[1]) % k>>
    ELSE LET high == DivModLimbs(SubSeq(a, Len(a) \div 2 + 1, Len(a)), k, r)
             \* the high half first: its remainder goes into the low half
             both == <<high, DivModLimbs(SubSeq(a, 1, Len(a) \div 2), k, high[2])>>
         IN  <<both[2][1] \o both[1][1], both[2][2]>>

\* <<a \div k, a % k>>, for k from 1 to Base
DivMod(a, k) ==
    LET d == DivModLimbs(a, k, 0)
    IN  <<Trim(d[1]), d[2]>>

Limb(a, i) == IF i <= Len(a) THEN a[i] ELSE 0

\* <<limbs lo to hi of a + sign * b + sign * c, the carry or borrow above
\* them>>, for sign in {1, -1} and c in 0..1
RECURSIVE AddLimbs(_, _, _, _, _, _)
AddLimbs(a, b, sign, lo, hi, c) ==
    IF lo > hi THEN <<<<>>, c>>
    ELSE IF lo = hi
    THEN LET t == Limb(a, lo) + sign * (Limb(b, lo) + c)
         IN  IF t < 0 THEN <<<<t + Base>>, 1>> ELSE <<<<t % Base>>, t \div Base>>
    ELSE LET mid  == (lo + hi) \div 2
             low  == AddLimbs(a, b, sign, lo, mid, c)
             high == AddLimbs(a, b, sign, mid + 1, hi, low[2])
         IN  <<low[1] \o high[1], high[2]>>

\* a + b
AddBig(a, b) ==
    LET r == AddLimbs(a, b, 1, 1, MaxOf({Len(a), Len(b)}), 0)
    IN  IF r[2] = 0 THEN r[1] ELSE Append(r[1], r[2])

\* a - b, for a >= b
SubBig(a, b) == Trim(AddLimbs(a, b, 0 - 1, 1, Len(a), 0)[1])

\* a < b
Less(a, b) ==
    IF Len(a) # Len(b) THEN Len(a) < Len(b)
    ELSE \E i \in 1..Len(a) :
            a[i] < b[i] /\ \A j \in (i + 1)..Len(a) : a[j] = b[j]

\* The number of bits of a; 0 for 0.
BitLength(a) ==
    IF a = <<>> THEN 0
    ELSE LimbBits * (Len(a) - 1)
           + (CHOOSE n \in 1..LimbBits : 2 ^ (n - 1) <= a[Len(a)] /\ a[Len(a)] < 2 ^ n)

\* a * 2^n
ShiftLeft(a, n) ==
    IF a = <<>> THEN <<>>
    ELSE [i \in 1..(n \div LimbBits) |-> 0] \o MulAdd(a, 2 ^ (n % LimbBits), 0)

\* a \div 2^n
ShiftRight(a, n) ==
    DivMod(SubSeq(a, n \div LimbBits + 1, Len(a)), 2 ^ (n % LimbBits))[1]

\* Whether a has a one among its n lowest bits.
Lost(a, n) == ShiftLeft(ShiftRight(a, n), n) # a

\* a * 10^n
RECURSIVE TimesPow10(_, _)
TimesPow10(a, n) ==
    IF a = <<>> THEN <<>>
    ELSE IF n <= 4 THEN MulAdd(a, 10 ^ n, 0)
    ELSE TimesPow10(TimesPow10(a, n \div 2), n - n \div 2)

\* <<a \div 10^n, whether a remainder was dropped>>
RECURSIVE OverPow10(_, _)
OverPow10(a, n) ==
    IF a = <<>> THEN <<<<>>, FALSE>>
    ELSE IF n <= 4 THEN LET d == DivMod(a, 10 ^ n) IN <<d[1], d[2] # 0>>
    ELSE LET high == OverPow10(a, n \div 2)
             low  == OverPow10(high[1], n - n \div 2)
         IN  <<low[1], high[2] \/ low[2]>>

----------------------------------------------------------------------------
(* A float is an IEEE 754 double: cls is "finite", "inf" or "nan", neg its  *)
(* sign bit, and a finite one is mant * 2^exp with mant an odd natural      *)
(* (<<>> and exp 0 for zero).                                               *)

Finite(neg, mant, exp) == [cls |-> "finite", neg |-> neg, mant |-> mant, exp |-> exp]

Zero(neg) == Finite(neg, <<>>, 0)

Inf(neg) == [cls |-> "inf", neg |-> neg, mant |-> <<>>, exp |-> 0]

NaN == [cls |-> "nan", neg |-> FALSE, mant |-> <<>>, exp |-> 0]

\* m * 2^e for m # 0, with the zero bits at the low end of m moved to e.
Odd(neg, m, e) ==
    LET limbs == MinOf({i \in 1..Len(m) : m[i] # 0}) - 1
        high  == SubSeq(m, limbs + 1, Len(m))
        bits  == CHOOSE n \in 0..(LimbBits - 1) : high[1] % 2 ^ (n + 1) = 2 ^ n
    IN  Finite(neg, DivMod(high, 2 ^ bits)[1], e + LimbBits * limbs + bits)

IsOdd(a) == a # <<>> /\ a[1] % 2 = 1

\* q * 2^quantum as a float: inf from 2^1024.
Ranged(neg, q, quantum) ==
    IF q = <<>> THEN Zero(neg)
    ELSE IF BitLength(q) + quantum > 1024 THEN Inf(neg)
    ELSE Odd(neg, q, quantum)

\* The bits kept, rounded to nearest: guard is the first bit dropped, rest
\* whether anything lies below it; a tie goes to the even neighbour.
TiesToEven(kept, guard, rest) ==
    IF guard /\ (rest \/ IsOdd(kept)) THEN AddBig(kept, <<1>>) ELSE kept

\* The double nearest to a number from m * 2^e to below (m + 1) * 2^e, above
\* m * 2^e when inexact, given the exponent of the last bit a double keeps
\* of it.  inexact needs two bits of m to be dropped.
RoundAt(neg, m, e, inexact, quantum) ==
    IF quantum <= e THEN Ranged(neg, m, e)
    ELSE Ranged(neg,
                TiesToEven(ShiftRight(m, quantum - e),
                           IsOdd(ShiftRight(m, quantum - e - 1)),
                           inexact \/ Lost(m, quantum - e - 1)),
                quantum)

\* A double keeps 53 bits, and none below 2^-1074.
RoundDouble(neg, m, e, inexact) ==
    IF m = <<>> THEN Zero(neg)
    ELSE RoundAt(neg, m, e, inexact, MaxOf({BitLength(m) - 53 + e, 0 - 1074}))

\* The values of a row: None, a str or a float.
None == [kind |-> "None", s |-> "", cls |-> "", neg |-> FALSE, mant |-> <<>>, exp |-> 0]

Str(s) == [kind |-> "str", s |-> s, cls |-> "", neg |-> FALSE, mant |-> <<>>, exp |-> 0]

Float(f) ==
    [kind |-> "float", s |-> "", cls |-> f.cls, neg |-> f.neg, mant |-> f.mant, exp |-> f.exp]

----------------------------------------------------------------------------
(* float() of a str: surrounding blanks, a sign, then "inf",                *)
(* "infinity" or "nan" in any case, or digits with single underscores      *)
(* between them, a point and an exponent; the value is the double nearest  *)
(* to the number written.                                                   *)

LowerCase == "abcdefghijklmnopqrstuvwxyz"

UpperCase == "ABCDEFGHIJKLMNOPQRSTUVWXYZ"

UpperCh(c) ==
    IF \E i \in 1..Len(LowerCase) : Ch(LowerCase, i) = c
    THEN Ch(UpperCase, CHOOSE i \in 1..Len(LowerCase) : Ch(LowerCase, i) = c)
    ELSE c

\* str.upper(), one half of the string after the other
RECURSIVE Upper(_)
Upper(s) ==
    IF s = "" THEN ""
    ELSE IF Len(s) = 1 THEN UpperCh(s)
    ELSE Upper(SubSeq(s, 1, Len(s) \div 2)) \o Upper(SubSeq(s, Len(s) \div 2 + 1, Len(s)))

\* The characters float() itself skips at the two ends of an ASCII str:
\* space, \t, \n, \r, \f and 0x0b, but not 0x1c to 0x1f.
FloatWhitespace == {" ", "\t", "\n", "\r", "\f", ""}

Digits == "0123456789"

IsDigit(c) == \E i \in 1..10 : Ch(Digits, i) = c

DigitVal(c) == (CHOOSE i \in 1..10 : Ch(Digits, i) = c) - 1

Unsigned(s) == IF s # "" /\ Ch(s, 1) \in {"+", "-"} THEN SubSeq(s, 2, Len(s)) ELSE s

SignOf(s) == IF s # "" /\ Ch(s, 1) = "-" THEN 0 - 1 ELSE 1

\* Digits, with single underscores only between two digits.
IsDigitPart(t) ==
    /\ t # ""
    /\ \A i \in 1..Len(t) :
          \/ IsDigit(Ch(t, i))
          \/ /\ Ch(t, i) = "_"
             /\ 1 < i /\ i < Len(t)
             /\ IsDigit(Ch(t, i - 1)) /\ IsDigit(Ch(t, i + 1))

\* The text before the first of the characters cs, and the text after it.
Before(t, cs) ==
    LET at == {i \in 1..Len(t) : Ch(t, i) \in cs}
    IN  IF at = {} THEN t ELSE SubSeq(t, 1, MinOf(at) - 1)

After(t, cs) ==
    LET at == {i \in 1..Len(t) : Ch(t, i) \in cs}
    IN  IF at = {} THEN "" ELSE SubSeq(t, MinOf(at) + 1, Len(t))

HasAny(t, cs) == \E i \in 1..Len(t) : Ch(t, i) \in cs

IsSpecialFloat(u) == Upper(u) \in {"INF", "INFINITY", "NAN"}

\* Whether float(s) returns; it raises ValueError otherwise.
IsFloat(s) ==
    LET u        == Unsigned(StripOf(s, FloatWhitespace))
        mantissa == Before(u, {"e", "E"})
        int      == Before(mantissa, {"."})
        frac     == After(mantissa, {"."})
    IN  \/ IsSpecialFloat(u)
        \/ /\ int = "" \/ IsDigitPart(int)
           /\ frac = "" \/ IsDigitPart(frac)
           /\ int # "" \/ frac # ""
           /\ HasAny(u, {"e", "E"}) => IsDigitPart(Unsigned(After(u, {"e", "E"})))

\* t without its underscores, one half of the string after the other
RECURSIVE Plain(_)
Plain(t) ==
    IF Len(t) <= 1 THEN (IF t = "_" THEN "" ELSE t)
    ELSE Plain(SubSeq(t, 1, Len(t) \div 2)) \o Plain(SubSeq(t, Len(t) \div 2 + 1, Len(t)))

\* The digits of t, without its underscores and, when leading, without
\* its leading zeros.
Significant(t, leading) ==
    LET d     == Plain(t)
        solid == {i \in 1..Len(d) : Ch(d, i) # "0"}
    IN  IF ~leading THEN d
        ELSE IF solid = {} THEN ""
        ELSE SubSeq(d, MinOf(solid), Len(d))

\* The integer a string of digits writes.
RECURSIVE IntOf(_, _)
IntOf(u, n) == IF n = 0 THEN 0 ELSE 10 * IntOf(u, n - 1) + DigitVal(Ch(u, n))

\* The natural a string of digits writes, one half after the other.
RECURSIVE DigitsValue(_)
DigitsValue(u) ==
    IF Len(u) <= 4 THEN MulAdd(<<>>, 1, IntOf(u, Len(u)))
    ELSE AddBig(TimesPow10(DigitsValue(SubSeq(u, 1, Len(u) \div 2)), Len(u) - Len(u) \div 2),
                DigitsValue(SubSeq(u, Len(u) \div 2 + 1, Len(u))))

\* The smaller of cap and the integer a string of digits without leading
\* zeros writes: more digits than cap has make a larger number.
Saturated(u, cap) ==
    IF Len(u) > (CHOOSE n \in 1..cap : 10 ^ (n - 1) <= cap /\ cap < 10 ^ n) THEN cap
    ELSE MinOf({IntOf(u, Len(u)), cap})

\* The double nearest to written / 10^n, for n > 0: the quotient is taken
\* of written * 2^scale, which leaves it more than 54 bits.
Quotient(neg, written, n, scale) ==
    LET q == OverPow10(ShiftLeft(written, scale), n)
    IN  RoundDouble(neg, q[1], 0 - scale, q[2])

\* The double nearest to digits * 10^shift, a number from
\* 10^(Len(digits) + shift - 1) to below 10^(Len(digits) + shift).
Scaled(neg, digits, shift) ==
    IF digits = "" THEN Zero(neg)
    ELSE IF Len(digits) + shift > 310 THEN Inf(neg)
    ELSE IF Len(digits) + shift < 0 - 330 THEN Zero(neg)
    ELSE IF shift >= 0
    THEN RoundDouble(neg, TimesPow10(DigitsValue(digits), shift), 0, FALSE)
    ELSE Quotient(neg, DigitsValue(digits), 0 - shift,
                  MaxOf({0, 56 - 4 * shift - BitLength(DigitsValue(digits))}))

\* The digits before and after the point, and the exponent less the digits
\* after the point; an exponent beyond bound gives inf or 0 as bound does.
Written(neg, mantissa, exptext, bound) ==
    Scaled(neg,
           Significant(Before(mantissa, {"."}) \o After(mantissa, {"."}), TRUE),
           SignOf(exptext) * Saturated(Significant(Unsigned(exptext), TRUE), bound)
             - Len(Significant(After(mantissa, {"."}), FALSE)))

Signed(neg, u) ==
    IF Upper(u) = "NAN" THEN NaN
    ELSE IF IsSpecialFloat(u) THEN Inf(neg)
    ELSE Written(neg, Before(u, {"e", "E"}), After(u, {"e", "E"}), Len(u) + 400)

\* float(s) of a string IsFloat accepts.
FloatOf(s) ==
    Signed(SignOf(StripOf(s, FloatWhitespace)) < 0, Unsigned(StripOf(s, FloatWhitespace)))

\* x / 60
Over60(x) ==
    IF x.cls # "finite" \/ x.mant = <<>> THEN x
    ELSE LET d == DivMod(ShiftLeft(x.mant, 60), 60)
         IN  RoundDouble(x.neg, d[1], x.exp - 60, d[2] # 0)

\* a * 2^low with the sign xneg plus b * 2^low with the sign yneg, for a
\* and b from 1
Aligned(xneg, a, yneg, b, low) ==
    IF xneg # yneg /\ a = b THEN Zero(FALSE)
    ELSE RoundDouble(IF xneg = yneg \/ Less(b, a) THEN xneg ELSE yneg,
                     IF xneg = yneg THEN AddBig(a, b)
                     ELSE IF Less(a, b) THEN SubBig(b, a) ELSE SubBig(a, b),
                     low, FALSE)

\* x + y
Sum(x, y) ==
    IF x.cls = "nan" \/ y.cls = "nan" THEN NaN
    ELSE IF x.cls = "inf" /\ y.cls = "inf" THEN (IF x.neg = y.neg THEN x ELSE NaN)
    ELSE IF x.cls = "inf" THEN x
    ELSE IF y.cls = "inf" THEN y
    ELSE IF x.mant = <<>> /\ y.mant = <<>> THEN Zero(x.neg /\ y.neg)
    ELSE IF x.mant = <<>> THEN y
    ELSE IF y.mant = <<>> THEN x
    ELSE Aligned(x.neg, ShiftLeft(x.mant, x.exp - MinOf({x.exp, y.exp})),
                 y.neg, ShiftLeft(y.mant, y.exp - MinOf({x.exp, y.exp})),
                 MinOf({x.exp, y.exp}))

\* x * n for n in {1, -1}
Times(x, n) ==
    IF n < 0 /\ x.cls # "nan" THEN [x EXCEPT !.neg = ~x.neg] ELSE x

\* degree + minute / 60
AddMinutes(dg, mn) == Sum(dg, Over60(mn))

----------------------------------------------------------------------------
(* The alias table *)

POSSIBILITIES ==
    [ expocode        |-> {"EXPOCODE"},
      woce_sect       |-> {"SECT", "WHP-ID", "WOCE"},
      stnnbr          |-> {"STNNBR"},
      castno          |-> {"CASTNO"},
      parameters      |-> {"PARAMETERS", "PARAM", "PARAMETER", "PARAMS",
                           "PARAMATER", "PARAMMETER"},
      comments        |-> {"COM", "COMM", "COMME", "COMMEN", "COMMUNTS",
                           "COMMENTS", "COMMENT", "COMMMENTS", "MOORING", "C",
                           "CO", "COMMENTS\t"},
      max_pressure    |-> {"PRESS", "PRESSURE"},
      wire            |-> {"WIRE", "OUT", "WHEEL"},
      bottles         |-> {"BOTTLES", "BOTTLE"},
      height          |-> {"BOTTOM", "ALT"},
      lat             |-> {"LATITUDE"},
      lon             |-> {"LONGITUDE"},
      type            |-> {"TYPE"},
      date            |-> {"DATE"},
      time            |-> {"TIME"},
      event           |-> {"CODE"},
      nav             |-> {"NAV"},
      depth           |-> {"DEPTH"},
      corrected_depth |-> {"CDEPTH"} ]

KnownLabels == UNION {POSSIBILITIES[k] : k \in DOMAIN POSSIBILITIES}

INVERTED_POSSIBILITIES ==
    [value \in KnownLabels |->
        CHOOSE key \in DOMAIN POSSIBILITIES : value \in POSSIBILITIES[key]]

----------------------------------------------------------------------------
(* The getters.  Each takes the deque d of a row and gives the value v it  *)
(* returns, the deque q it leaves and the exception err it raises.         *)

Got(v, q) == [v |-> v, q |-> q, err |-> "none"]

Raised(e, q) == [v |-> None, q |-> q, err |-> e]

\* simple_get with the token stripped before it is returned.
simple_get_stripping(d) ==
    IF d = <<>> THEN Got(None, d) ELSE Got(Str(Strip(Head(d))), Tail(d))

simple_get(d) ==
    IF d = <<>> THEN Got(None, d) ELSE Got(Str(Head(d)), Tail(d))

ParamsAllowed == "1234567890,- "

AllowedParams(params) ==
    \A i \in 1..Len(params) :
        \E j \in 1..Len(ParamsAllowed) : Ch(ParamsAllowed, j) = Ch(params, i)

\* params_get with the token removed before it is examined.
params_get_popping(d) ==
    IF d = <<>> THEN Got(None, d)
    ELSE IF AllowedParams(d[1]) THEN Got(Str(Head(d)), Tail(d))
    ELSE Got(None, Tail(d))

params_get(d) ==
    IF d = <<>> THEN Got(None, d)
    ELSE IF AllowedParams(d[1]) THEN Got(Str(Head(d)), Tail(d))
    ELSE Got(None, d)

comments_get(d) == Got(Str(JoinSpace(d)), d)

hem == [N |-> 1, S |-> 0 - 1, E |-> 1, W |-> 0 - 1]

\* Lines 158-165 on a deque of three tokens or more.
DecodeLatLon(d) ==
    LET degree     == Strip(d[1])
        minute     == Strip(d[2])
        hemisphere == Upper(Strip(d[3]))
        rest       == SubSeq(d, 4, Len(d))
        value      == AddMinutes(FloatOf(degree), FloatOf(minute))
    IN  IF ~IsFloat(degree) \/ ~IsFloat(minute) THEN Got(None, rest)
        ELSE IF hemisphere \notin DOMAIN hem THEN Raised("KeyError", rest)
        ELSE Got(Float(Times(value, hem[hemisphere])), rest)

latlon_get(d) ==
    IF Len(d) < 3 THEN Raised("IndexError", <<>>) ELSE DecodeLatLon(d)

SimpleFields ==
    {"expocode", "woce_sect", "stnnbr", "castno", "type", "date", "time",
     "event", "nav", "depth", "corrected_depth", "height", "wire", "bottles",
     "max_pressure"}

GETTERS(name, d) ==
    IF name \in {"lat", "lon"} THEN latlon_get(d)
    ELSE IF name = "parameters" THEN params_get(d)
    ELSE IF name = "comments" THEN comments_get(d)
    ELSE simple_get(d)

----------------------------------------------------------------------------
(* calculate_slices *)

\* The length of the group of equal values that starts at index i (from 1).
RECURSIVE GroupLength(_, _)
GroupLength(space_columns, i) ==
    IF i < Len(space_columns) /\ space_columns[i + 1] = space_columns[i]
    THEN 1 + GroupLength(space_columns, i + 1)
    ELSE 1

RECURSIVE SlicesFrom(_, _)
SlicesFrom(space_columns, position) ==
    IF position >= Len(space_columns) THEN <<>>
    ELSE LET length == GroupLength(space_columns, position + 1)
         IN  (IF space_columns[position + 1] = FALSE
              THEN <<[start |-> position, stop |-> position + length]>>
              ELSE <<>>)
             \o SlicesFrom(space_columns, position + length)

calculate_slices(space_columns) == SlicesFrom(space_columns, 0)

----------------------------------------------------------------------------
(* read_sum, up to the row loop *)

SeparatorMark == "----------"

\* The indexes (from 0) of the lines the loop of read_sum would accept.
SeparatorLines(ls) ==
    {i \in 0..(Len(ls) - 1) : StartsWith(Strip(ls[i + 1]), SeparatorMark)}

\* Whether list[idx] exists; a negative idx counts from the end.
InRange(ls, idx) == 0 - Len(ls) <= idx /\ idx < Len(ls)

\* list[idx]
Item(ls, idx) == IF idx < 0 THEN ls[idx + Len(ls) + 1] ELSE ls[idx + 1]

\* The header labels: the runs of non-space characters of the header line.
HeaderLabels(hdr) ==
    LET header_slices == calculate_slices(IsSpace(hdr))
    IN  [i \in 1..Len(header_slices) |-> Slice(hdr, header_slices[i])]

Count(headers, label) == Cardinality({i \in 1..Len(headers) : headers[i] = label})

Labels(headers) == {headers[i] : i \in 1..Len(headers)}

\* The offset of the corrected-depth marker of the preheader, "COR" or else "XXX".
CorrectedOffset(pre) ==
    IF IndexOf(pre, "COR") # NoIndex THEN IndexOf(pre, "COR") ELSE IndexOf(pre, "XXX")

\* The depth branch with the first DEPTH retagged, as the elif would do.
RetagFirstDepth(headers, corrected_depth, uncorreced_depth) ==
    IF corrected_depth > uncorreced_depth
    THEN LET first == MinOf({i \in 1..Len(headers) : headers[i] = "DEPTH"})
         IN  [headers EXCEPT ![first] = "CDEPTH"]
    ELSE headers

\* headers after the depth branch: the last DEPTH becomes CDEPTH when the
\* corrected marker lies after the uncorrected one; the elif repeats the
\* same comparison, so it never runs.
RetagDepth(headers, corrected_depth, uncorreced_depth) ==
    IF corrected_depth > uncorreced_depth
    THEN LET last == MaxOf({i \in 1..Len(headers) : headers[i] = "DEPTH"})
         IN  [headers EXCEPT ![last] = "CDEPTH"]
    ELSE headers

\* The indexes of the keys of Counter(headers), which keeps the labels in
\* the order of their first occurrence.
CounterKeys(headers) ==
    {i \in 1..Len(headers) : \A j \in 1..(i - 1) : headers[j] # headers[i]}

\* Whether the loop of lines 260-264 raises at this key.
BadCount(headers, h) ==
    \/ h = "DEPTH" /\ Count(headers, h) # 2
    \/ h # "DEPTH" /\ Count(headers, h) # 1

\* Lines 237-276: the exception raised, if any, normalized_headers and
\* normalized_empty, and the local header, which the loop of line 260
\* rebinds to the keys of the Counter.
ResolveLayout(pre, hdr, empty) ==
    LET uncorreced_depth == IndexOf(pre, "UNC")
        corrected_depth  == CorrectedOffset(pre)
        headers          == HeaderLabels(hdr)
        keys             == CounterKeys(headers)
        duplicated       == Len(headers) # Cardinality(Labels(headers))
        bad              == {i \in keys : BadCount(headers, headers[i])}
        lastkey          == IF duplicated THEN headers[MaxOf(keys)] ELSE hdr
        retagged         == IF duplicated
                            THEN RetagDepth(headers, corrected_depth, uncorreced_depth)
                            ELSE headers
        normalized_empty_ == {INVERTED_POSSIBILITIES[empty[i]] : i \in 1..Len(empty)}
        failed(e, h)     == [err |-> e, names |-> <<>>, empty |-> normalized_empty_,
                             header |-> h]
    IN  IF \E i \in 1..Len(empty) : empty[i] \notin KnownLabels
        THEN [err |-> "KeyError", names |-> <<>>, empty |-> {}, header |-> hdr]
        ELSE IF duplicated /\ bad # {} THEN failed("ValueError", headers[MinOf(bad)])
        ELSE IF duplicated /\ NoIndex \in {corrected_depth, uncorreced_depth}
        THEN failed("TypeError", lastkey)
        ELSE IF \E i \in 1..Len(retagged) : retagged[i] \notin KnownLabels
        THEN failed("KeyError", lastkey)
        ELSE [err    |-> "none",
              names  |-> [i \in 1..Len(retagged) |-> INVERTED_POSSIBILITIES[retagged[i]]],
              empty  |-> normalized_empty_,
              header |-> lastkey]

\* The same with zip_longest's fillvalue False.
AndLongestFillFalse(space_columns, sc) ==
    LET n == IF Len(space_columns) > Len(sc) THEN Len(space_columns) ELSE Len(sc)
        at(x, i) == IF i <= Len(x) THEN x[i] ELSE FALSE
    IN  [i \in 1..n |-> at(space_columns, i) /\ at(sc, i)]

\* a and b for a, b in zip_longest(space_columns, sc, fillvalue=True)
AndLongest(space_columns, sc) ==
    LET n == IF Len(space_columns) > Len(sc) THEN Len(space_columns) ELSE Len(sc)
        at(x, i) == IF i <= Len(x) THEN x[i] ELSE TRUE
    IN  [i \in 1..n |-> at(space_columns, i) /\ at(sc, i)]

\* space_columns after the loop over the first n lines of the body.
RECURSIVE SpaceColumns(_, _)
SpaceColumns(b, n) ==
    IF n = 0 THEN IsSpace(b[1])
    ELSE AndLongest(SpaceColumns(b, n - 1), IsSpace(b[n]))

\* [line[slice] for slice in column_slices]
Tokens(line, slices) == [i \in 1..Len(slices) |-> Slice(line, slices[i])]

EmptyRow == [n \in {} |-> None]

\* An exception leaves the generator where it was raised.
Raise(e) ==
    /\ error' = e
    /\ UNCHANGED pc

----------------------------------------------------------------------------
(* The steps of the generator *)

\* Lines 210-234: decode, split, find the separator, take the three parts.
Locate ==
    /\ pc = "start"
    /\ error = "none"
    /\ LET ls   == Splitlines(data)
           seps == SeparatorLines(ls)
           i    == MinOf(seps)
       IN  IF high_byte
           THEN Raise("InvalidSumError") /\ UNCHANGED <<lines, preheader, header, body>>
           ELSE IF seps = {}
           THEN Raise("UnboundLocalError") /\ lines' = ls
                /\ UNCHANGED <<preheader, header, body>>
           ELSE IF ~InRange(ls, i - 2) \/ ~InRange(ls, i - 1)
           THEN Raise("IndexError") /\ lines' = ls
                /\ UNCHANGED <<preheader, header, body>>
           ELSE /\ lines' = ls
                /\ preheader' = Item(ls, i - 2)
                /\ header' = Item(ls, i - 1)
                /\ body' = SubSeq(ls, i + 2, Len(ls))
                /\ pc' = "layout"
                /\ UNCHANGED error
    /\ UNCHANGED <<data, high_byte, empty_cols, normalized_headers, normalized_empty,
                   column_slices, tokenized_body, line_no, fld, row, row_data, rows>>

\* Lines 237-276.
Layout ==
    /\ pc = "layout"
    /\ error = "none"
    /\ LET r == ResolveLayout(preheader, header, empty_cols)
       IN  /\ header' = r.header
           /\ normalized_empty' = r.empty
           /\ IF r.err # "none"
              THEN Raise(r.err) /\ UNCHANGED normalized_headers
              ELSE /\ normalized_headers' = r.names
                   /\ pc' = "tokenize"
                   /\ UNCHANGED error
    /\ UNCHANGED <<data, high_byte, empty_cols, lines, preheader, body,
                   column_slices, tokenized_body, line_no, fld, row, row_data, rows>>

\* Lines 279-290.
Tokenize ==
    /\ pc = "tokenize"
    /\ error = "none"
    /\ IF body = <<>>
       THEN Raise("IndexError") /\ UNCHANGED <<column_slices, tokenized_body>>
       ELSE LET slices == calculate_slices(SpaceColumns(body, Len(body)))
            IN  /\ column_slices' = slices
                /\ tokenized_body' = [k \in 1..Len(body) |-> Tokens(body[k], slices)]
                /\ pc' = "loop"
                /\ UNCHANGED error
    /\ UNCHANGED <<data, high_byte, empty_cols, lines, preheader, header, body,
                   normalized_headers, normalized_empty, line_no, fld, row,
                   row_data, rows>>

\* Lines 291-293: the next line of tokenized_body, its dict and its deque.
NextLine ==
    /\ pc = "loop"
    /\ error = "none"
    /\ line_no < Len(tokenized_body)
    /\ line_no' = line_no + 1
    /\ row' = tokenized_body[line_no + 1]
    /\ row_data' = EmptyRow
    /\ fld' = 1
    /\ pc' = "fields"
    /\ UNCHANGED <<data, high_byte, empty_cols, lines, preheader, header, body,
                   normalized_headers, normalized_empty, column_slices,
                   tokenized_body, rows, error>>

\* row_data[name] = v
SetItem(rd, name, v) ==
    [n \in DOMAIN rd \cup {name} |-> IF n = name THEN v ELSE rd[n]]

\* Lines 294-299: one turn of the loop over normalized_headers, which
\* rebinds the local header to the field's name.
Field ==
    /\ pc = "fields"
    /\ error = "none"
    /\ fld <= Len(normalized_headers)
    /\ LET name == normalized_headers[fld]
           g    == GETTERS(name, row)
       IN  /\ header' = name
           /\ IF name \in normalized_empty
              THEN /\ row_data' = SetItem(row_data, name, None)
                   /\ fld' = fld + 1
                   /\ UNCHANGED <<row, pc, error>>
              ELSE IF g.err # "none"
              THEN Raise(g.err) /\ row' = g.q /\ UNCHANGED <<row_data, fld>>
              ELSE /\ row_data' = SetItem(row_data, name, g.v)
                   /\ row' = g.q
                   /\ fld' = fld + 1
                   /\ UNCHANGED <<pc, error>>
    /\ UNCHANGED <<data, high_byte, empty_cols, lines, preheader, body,
                   normalized_headers, normalized_empty, column_slices,
                   tokenized_body, line_no, rows>>

\* Line 300.
Yield ==
    /\ pc = "fields"
    /\ error = "none"
    /\ fld > Len(normalized_headers)
    /\ rows' = Append(rows, row_data)
    /\ pc' = "loop"
    /\ UNCHANGED <<data, high_byte, empty_cols, lines, preheader, header, body,
                   normalized_headers, normalized_empty, column_slices,
                   tokenized_body, line_no, fld, row, row_data, error>>

\* The loop of line 291 ends: the generator returns.
Return ==
    /\ pc = "loop"
    /\ error = "none"
    /\ line_no = Len(tokenized_body)
    /\ pc' = "returned"
    /\ UNCHANGED <<data, high_byte, empty_cols, lines, preheader, header, body,
                   normalized_headers, normalized_empty, column_slices,
                   tokenized_body, line_no, fld, row, row_data, rows, error>>

Next == Locate \/ Layout \/ Tokenize \/ NextLine \/ Field \/ Yield \/ Return

\* The state of a call read_sum(d, e) before the generator's first step.
Called(d, hb, e) ==
    /\ data = d
    /\ high_byte = hb
    /\ empty_cols = e
    /\ pc = "start"
    /\ lines = <<>>
    /\ preheader = ""
    /\ header = ""
    /\ body = <<>>
    /\ normalized_headers = <<>>
    /\ normalized_empty = {}
    /\ column_slices = <<>>
    /\ tokenized_body = <<>>
    /\ line_no = 0
    /\ fld = 1
    /\ row = <<>>
    /\ row_data = EmptyRow
    /\ rows = <<>>
    /\ error = "none"

----------------------------------------------------------------------------
(* The calls the specifications explore *)

MaxLabels == 3

MaxBodyLines == 2

MaxLineLen == 3

\* The text of a file with these lines.
RECURSIVE JoinLines(_)
JoinLines(ls) == IF ls = <<>> THEN "" ELSE ls[1] \o "\n" \o JoinLines(Tail(ls))

SeqsUpTo(S, lo, hi) == UNION {[1..n -> S] : n \in lo..hi}

\* Layouts: every header of up to MaxLabels labels under every preheader.
LayoutLabels == {"DEPTH", "CDEPTH", "PRESS", "PRESSURE", "BOGUS"}

Preheaders == {"", "UNC", "COR", "UNC COR", "COR UNC", "UNC XXX", "XXX UNC"}

LayoutFiles ==
    {JoinLines(<<pre, JoinSpace(labels), "----------", "1 2 3">>) :
        pre \in Preheaders, labels \in SeqsUpTo(LayoutLabels, 1, MaxLabels)}

\* Separators: where the first separator line is, if anywhere.
SeparatorTexts == {"----------", " ------------ x", "---------"}

Prefixes == {<<>>, <<"STNNBR CASTNO">>, <<"UNC COR", "STNNBR CASTNO">>,
             <<"UNC CORSTNNBR CASTNO">>,
             <<"TITLE", "UNC COR", "DEPTH DEPTH">>}

Suffixes == {<<>>, <<"1 2">>, <<"UNC COR", "STNNBR CASTNO">>,
             <<"1 2", "-----------", "3 4">>}

SeparatorFiles ==
    {JoinLines(pf \o <<sp>> \o sf) :
        pf \in Prefixes, sp \in SeparatorTexts, sf \in Suffixes}

EmptyColsArgs == {<<>>, <<"CASTNO">>, <<"DEPTH", "DEPTH">>, <<"BOGUS">>}

InitLayout ==
    \/ \E d \in LayoutFiles : Called(d, FALSE, <<>>)
    \/ \E d \in SeparatorFiles, hb \in BOOLEAN, e \in EmptyColsArgs : Called(d, hb, e)

\* Fields: bodies of up to MaxBodyLines lines under headers of every getter.
FieldHeaders ==
    {"STNNBR", "STNNBR CASTNO", "LATITUDE", "STNNBR LONGITUDE",
     "LATITUDE STNNBR CASTNO", "PARAMS COMMENTS", "STNNBR PARAMS COMMENTS",
     "COMMENTS STNNBR"}

FieldLines ==
    {"12 30.5 N", "12 30 x", "ab 30 S", "1e1 -.5 w 1,-3", "inf 1_0 e", "7 8",
     " 7", "A1 B", "1,-3 B", ""}

FieldFiles ==
    {JoinLines(<<"", hdr, "----------">> \o b) :
        hdr \in FieldHeaders, b \in SeqsUpTo(FieldLines, 0, MaxBodyLines)}

InitFields ==
    \E d \in FieldFiles, e \in {<<>>, <<"STNNBR">>} : Called(d, FALSE, e)

\* Slices: every body of up to MaxBodyLines lines of up to MaxLineLen
\* characters, each a space or not.
RECURSIVE Texts(_, _)
Texts(alphabet, n) ==
    IF n = 0 THEN {""}
    ELSE Texts(alphabet, n - 1)
         \cup {t \o c : t \in {u \in Texts(alphabet, n - 1) : Len(u) = n - 1},
                        c \in alphabet}

SliceFiles ==
    {JoinLines(<<"", "STNNBR CASTNO", "----------">> \o b) :
        b \in SeqsUpTo(Texts({" ", "a"}, MaxLineLen), 1, MaxBodyLines)}

InitSlices == \E d \in SliceFiles : Called(d, FALSE, <<>>)

SpecLayout == InitLayout /\ [][Next]_vars

SpecFields == InitFields /\ [][Next]_vars

SpecSlices == InitSlices /\ [][Next]_vars

Init == InitLayout \/ InitFields \/ InitSlices

Spec == Init /\ [][Next]_vars

----------------------------------------------------------------------------
(* Properties *)

Failed == error # "none"

Finished == pc = "returned" \/ Failed

\* Lines 237-276 have run, with or without an exception.
LayoutDone == pc \notin {"start", "layout"} \/ (pc = "layout" /\ Failed)

\* Lines 279-290 have run without an exception.
Tokenized == pc \in {"loop", "fields", "returned"}

\* The field the loop of line 294 is about to decode.
AtField(names) ==
    /\ pc = "fields"
    /\ ~Failed
    /\ fld <= Len(normalized_headers)
    /\ normalized_headers[fld] \in names
    /\ normalized_headers[fld] \notin normalized_empty

NoRepeat(names) == \A i, j \in 1..Len(names) : names[i] = names[j] => i = j

\* C1 as stated: a layout whose column slices differ in number from its
\* canonical field names yields no row: whenever a row has been yielded,
\* the number of column slices equals the number of canonical field names.
C1_RowsImplyEqualCounts ==
    rows # <<>> => Len(column_slices) = Len(normalized_headers)

\* C2 as stated: no field-level anomaly escapes the row loop; the only
\* exception a getter raises over a field anomaly is latlon_get's KeyError
\* for the hemisphere letter, so the row loop never fails with KeyError.
C2_NoAnomalyEscapes == ~(pc = "fields" /\ error = "KeyError")

\* The first separator line (from 0) of the input, or NoIndex.
FirstSeparator ==
    LET seps == SeparatorLines(Splitlines(data))
    IN  IF seps = {} THEN NoIndex ELSE MinOf(seps)

\* C3 as stated: an input whose first separator is missing or on line 0
\* or 1 is rejected by the separator search (lines 223-234): the reader
\* never goes on to resolve a layout from it and yields no row.
C3_EarlySeparatorRejected ==
    FirstSeparator < 2 => pc = "start" /\ rows = <<>>

\* The header line, lines[header_index]: the local header is rebound by
\* the loops of lines 260 and 294.
HeaderLine ==
    IF InRange(lines, FirstSeparator - 1)
    THEN Item(lines, FirstSeparator - 1) ELSE ""

CountOf(labels, label) ==
    Cardinality({i \in 1..Len(labels) : labels[i] = label})

EmptyColsKnown == \A i \in 1..Len(empty_cols) : empty_cols[i] \in KnownLabels

\* The header has DEPTH exactly twice and every other label once, all of
\* them known, and the preheader has UNC before COR.
C4_DepthPair ==
    LET labels == HeaderLabels(HeaderLine)
    IN  /\ CountOf(labels, "DEPTH") = 2
        /\ \A i \in 1..Len(labels) :
              labels[i] # "DEPTH" =>
                  CountOf(labels, labels[i]) = 1 /\ labels[i] \in KnownLabels
        /\ IndexOf(preheader, "UNC") # NoIndex
        /\ IndexOf(preheader, "COR") # NoIndex
        /\ IndexOf(preheader, "UNC") < IndexOf(preheader, "COR")

\* The header has DEPTH three times, or DEPTH once and another label twice
\* or more.
C4_BadDuplicates ==
    LET labels == HeaderLabels(HeaderLine)
    IN  \/ CountOf(labels, "DEPTH") = 3
        \/ /\ CountOf(labels, "DEPTH") = 1
           /\ \E i \in 1..Len(labels) :
                 labels[i] # "DEPTH" /\ CountOf(labels, labels[i]) > 1

\* C4: with DEPTH twice and UNC before COR in the preheader, the second
\* DEPTH resolves to corrected_depth and the first to depth; with DEPTH
\* three times, or once beside another duplicated label, the layout step
\* raises ValueError (the code's AmbiguousLayout) and no row is yielded.
C4_DepthDuplication ==
    LayoutDone /\ EmptyColsKnown =>
        LET labels == HeaderLabels(HeaderLine)
            depths == {i \in 1..Len(labels) : labels[i] = "DEPTH"}
        IN  /\ C4_DepthPair =>
                /\ pc # "layout"
                /\ Len(normalized_headers) = Len(labels)
                /\ normalized_headers[MinOf(depths)] = "depth"
                /\ normalized_headers[MaxOf(depths)] = "corrected_depth"
            /\ C4_BadDuplicates =>
                pc = "layout" /\ error = "ValueError" /\ rows = <<>>

C4_Witness ==
    /\ C4_DepthPair
    /\ rows # <<>>
    /\ Len(normalized_headers) > 2
    /\ normalized_headers[Len(normalized_headers)] = "corrected_depth"

\* C5 as stated: whenever a row has been yielded, no canonical field name
\* occurs twice in the resolved layout.
C5_NoRepeatedName == rows # <<>> => NoRepeat(normalized_headers)

\* C6 as stated: for an input without a structural error (the layout
\* resolved, the body tokenized into as many slices as there are field
\* names), a finished read has yielded one row for each body line.
C6_OneRowPerLine ==
    Tokenized /\ Finished /\ Len(column_slices) = Len(normalized_headers)
        => Len(rows) = Len(body)

\* C7 as stated: an input whose layout resolved and whose body is empty
\* raises nothing.
C7_EmptyBodyLegal == LayoutDone /\ pc # "layout" /\ body = <<>> => ~Failed

ParamChars == {"0", "1", "2", "3", "4", "5", "6", "7", "8", "9", ",", "-", " "}

C8_Accepted(token) == \A i \in 1..Len(token) : Ch(token, i) \in ParamChars

\* C8: on a non-empty queue the parameters decoder removes and returns the
\* front token if all its characters are digits, commas, hyphens or
\* spaces; otherwise it returns None and leaves the queue as it was, so the
\* next decoder starts at the same token.
C8_ParamsPeek ==
    [][AtField({"parameters"}) /\ row # <<>> =>
          IF C8_Accepted(row[1])
          THEN row' = Tail(row) /\ row_data'["parameters"] = Str(row[1])
          ELSE /\ row' = row
               /\ row_data'["parameters"] = None
               /\ fld' = fld + 1
               /\ error' = "none"]_vars

C8_Witness ==
    /\ AtField({"comments"})
    /\ fld > 1
    /\ normalized_headers[fld - 1] = "parameters"
    /\ row_data["parameters"] = None
    /\ row # <<>>
    /\ row = tokenized_body[line_no]
    /\ ~C8_Accepted(row[1])

\* C9 as stated: the scalar decoder removes one token and returns it
\* stripped of surrounding whitespace; on an empty queue it returns None
\* and removes nothing.
C9_ScalarStripped ==
    [][AtField(SimpleFields) =>
          IF row = <<>>
          THEN row' = row /\ row_data'[normalized_headers[fld]] = None
          ELSE /\ row' = Tail(row)
               /\ row_data'[normalized_headers[fld]] = Str(Strip(row[1]))]_vars

\* C9 as amended: the scalar decoder removes one token and returns it as
\* it is, with the spaces its column slice holds around it; on an empty
\* queue it returns None and removes nothing.
C9_ScalarVerbatim ==
    [][AtField(SimpleFields) =>
          IF row = <<>>
          THEN row' = row /\ row_data'[normalized_headers[fld]] = None
          ELSE /\ row' = Tail(row)
               /\ row_data'[normalized_headers[fld]] = Str(row[1])]_vars

C9_Witness ==
    /\ pc = "fields"
    /\ fld = 2
    /\ normalized_headers[1] \in SimpleFields
    /\ row_data[normalized_headers[1]].kind = "str"
    /\ row_data[normalized_headers[1]].s # Strip(row_data[normalized_headers[1]].s)
    /\ Len(row) = Len(column_slices) - 1

\* Position p (from 0) is a gap: every body line has a space there or ends
\* before it.
C10_Gap(p) == \A k \in 1..Len(body) : p >= Len(body[k]) \/ Ch(body[k], p + 1) = " "

C10_Width == MaxOf({Len(body[k]) : k \in 1..Len(body)})

\* The maximal runs of non-gap positions, as half-open ranges.
C10_Runs ==
    {r \in (0..C10_Width) \X (0..C10_Width) :
        /\ r[1] < r[2]
        /\ \A p \in r[1]..(r[2] - 1) : ~C10_Gap(p)
        /\ r[1] = 0 \/ C10_Gap(r[1] - 1)
        /\ r[2] = C10_Width \/ C10_Gap(r[2])}

\* C10: the column slices of a tokenized body are the maximal runs of
\* non-gap positions from left to right, and the token of line k for a
\* slice is what the line holds in it, empty where the line is shorter.
C10_SlicesAreMaximalRuns ==
    Tokenized =>
        /\ {<<column_slices[j].start, column_slices[j].stop>> :
                j \in 1..Len(column_slices)} = C10_Runs
        /\ \A j \in 1..(Len(column_slices) - 1) :
              column_slices[j].stop < column_slices[j + 1].start
        /\ Len(tokenized_body) = Len(body)
        /\ \A k \in 1..Len(body) :
              /\ Len(tokenized_body[k]) = Len(column_slices)
              /\ \A j \in 1..Len(column_slices) :
                    LET a   == column_slices[j].start
                        b   == column_slices[j].stop
                        end == IF b < Len(body[k]) THEN b ELSE Len(body[k])
                        tok == tokenized_body[k][j]
                    IN  /\ Len(tok) = (IF end > a THEN end - a ELSE 0)
                        /\ \A i \in 1..Len(tok) : Ch(tok, i) = Ch(body[k], a + i)

C10_Witness ==
    /\ Tokenized
    /\ Len(body) > 1
    /\ Len(column_slices) > 1
    /\ \E k \in 1..Len(body) : tokenized_body[k][Len(column_slices)] = ""
    /\ \E k \in 1..Len(body) : Len(body[k]) < C10_Width /\ Len(body[k]) > 0

====
